---- MODULE Spec2Model ----
(***************************************************************************)
(* CPU-scheduler (src/app.py): the six scheduling policies, the dispatch   *)
(* in simulate() and compute_metrics_from_gantt, as one state machine.     *)
(* A Proc object is identified by its position in the descriptor list     *)
(* (object identity); its fields are the descriptor's plus rem[i], the     *)
(* mutable `remaining` field of the record the policy works on, and        *)
(* proc_objs[i], the `remaining` field of the caller's record.             *)
(***************************************************************************)
EXTENDS Integers, Sequences, FiniteSets, TLC

\* ------------------------------------------------------------------ bounds
MaxArrival == 2
MaxBurst == 3
MaxPrio == 1
MaxQuantum == 2
\* How many iterations a round robin run with quantum <= 0 is followed for.
MaxDiverge == 3
\* compute_metrics_from_gantt called on its own: the longest timeline handed
\* to it and the largest tick in it.
MaxGanttIn == 2
MaxTick == 1
\* The second run of a policy on the same records is followed for batches of
\* up to MaxRerun processes.
MaxRerun == 2

\* The pid universe: the i-th descriptor of a batch is named PidNames[i].
PidNames == <<"P1", "P2", "P3">>
MaxProcs == Len(PidNames)

\* The algorithm keys of the form, and one key that is none of them.
KnownAlgorithms == {"fcfs", "sjf-np", "sjf-p", "rr", "priority-np", "priority-p"}
Algorithms == KnownAlgorithms \cup {"lottery"}

\* Python's None for an optional number: <<>> is None, <<v>> is the value v.
None == <<>>
Some(v) == <<v>>
IsNone(o) == o = <<>>
Val(o) == o[1]

\* ------------------------------------------------------------------ state
VARIABLES
    entry,          \* "simulate" (the route) or "metrics" (the helper called alone)
    proc_desc,      \* the parsed descriptor list
    algorithm,      \* the form's algorithm key
    quantum,        \* the form's quantum
    pc,             \* "parse", "loop", "metrics", "done"; "build" for the caller
    policy,         \* the policy function dispatch selected ("" before dispatch)
    rem,            \* rem[i]: Proc.remaining of the policy's copy of process i
    remaining,      \* not-yet-admitted processes (fcfs: the rest of the sorted list)
    ready,          \* the ready list (round_robin: the queue)
    current,        \* the running process of a preemptive policy, 0 for None
    interval_start, \* start of the open interval of current, None when closed
    time,           \* the clock
    gantt,          \* the timeline, a sequence of <<pid, start, end>>
    rows,           \* the metrics rows
    avgs,           \* the aggregates
    proc_objs,      \* proc_objs[i]: Proc.remaining of the caller's record of process i
    call,           \* 1 in the first run of the policy on proc_objs, 2 in the second
    first_gantt     \* the timeline the first run returned (<<>> before the second run)

vars == <<entry, proc_desc, algorithm, quantum, pc, policy, rem, remaining, ready,
          current, interval_start, time, gantt, rows, avgs, proc_objs, call, first_gantt>>

\* ---------------------------------------------------------------- helpers
Range(s) == {s[i] : i \in 1..Len(s)}

RECURSIVE SumSeq(_)
SumSeq(s) == IF s = <<>> THEN 0 ELSE Head(s) + SumSeq(Tail(s))

\* Python's tuple order on keys of equal length.
RECURSIVE LexLess(_, _)
LexLess(a, b) ==
    IF a = <<>> THEN FALSE
    ELSE IF Head(a) < Head(b) THEN TRUE
    ELSE IF Head(a) > Head(b) THEN FALSE
    ELSE LexLess(Tail(a), Tail(b))

\* list.sort / sorted: a stable sort; key[x] is the key tuple of element x.
RECURSIVE InsertStable(_, _, _)
InsertStable(x, s, key) ==
    IF s = <<>> THEN <<x>>
    ELSE IF LexLess(key[x], key[s[Len(s)]])
         THEN InsertStable(x, SubSeq(s, 1, Len(s) - 1), key) \o <<s[Len(s)]>>
         ELSE s \o <<x>>

RECURSIVE SortStable(_, _)
SortStable(s, key) ==
    IF s = <<>> THEN <<>>
    ELSE LET n == Len(s)
         IN  InsertStable(s[n], SortStable(SubSeq(s, 1, n - 1), key), key)

Min(S) == CHOOSE x \in S : \A y \in S : x <= y

\* min(quantum, p.remaining)
MinOf(a, b) == IF a <= b THEN a ELSE b

\* ------------------------------------------------------------------ inputs
Desc(i, a, b, p) == [pid |-> PidNames[i], arrival |-> a, burst |-> b, priority |-> p]

\* The scenarios of the documentation.
ScenarioFcfs ==
    << [pid |-> "P1", arrival |-> 0, burst |-> 8, priority |-> 0],
       [pid |-> "P2", arrival |-> 1, burst |-> 4, priority |-> 0],
       [pid |-> "P3", arrival |-> 2, burst |-> 9, priority |-> 0] >>

ScenarioRr ==
    << [pid |-> "P1", arrival |-> 0, burst |-> 5, priority |-> 0],
       [pid |-> "P2", arrival |-> 1, burst |-> 3, priority |-> 0] >>

\* A batch in which a process is preempted and the CPU later falls idle.
PreemptThenGap ==
    << [pid |-> "P1", arrival |-> 0, burst |-> 3, priority |-> 0],
       [pid |-> "P2", arrival |-> 1, burst |-> 1, priority |-> 0],
       [pid |-> "P3", arrival |-> 4, burst |-> 1, priority |-> 0] >>

\* Batches with an ill-formed descriptor: a pid used twice, a burst of 0, an
\* arrival below 0.
DuplicatePid ==
    << [pid |-> "P1", arrival |-> 0, burst |-> 2, priority |-> 0],
       [pid |-> "P1", arrival |-> 1, burst |-> 1, priority |-> 0] >>

ZeroBurst ==
    << [pid |-> "P1", arrival |-> 0, burst |-> 0, priority |-> 0],
       [pid |-> "P2", arrival |-> 0, burst |-> 1, priority |-> 0] >>

NegativeArrival ==
    << [pid |-> "P1", arrival |-> 0 - 1, burst |-> 1, priority |-> 0] >>

IllFormed == {DuplicatePid, ZeroBurst, NegativeArrival}

IsPrefix(s, t) == Len(s) <= Len(t) /\ SubSeq(t, 1, Len(s)) = s

\* The next line of scenario sc, when the lines read so far are its beginning.
ScenarioLine(sc, d) ==
    IF IsPrefix(d, sc) /\ Len(d) < Len(sc) THEN {sc[Len(d) + 1]} ELSE {}

Quanta == (0 - 1)..MaxQuantum
DefaultQuantum == 2

\* ------------------------------------------------------- process records
N == Len(proc_desc)
Pid(i) == proc_desc[i].pid
Arrival(i) == proc_desc[i].arrival
Burst(i) == proc_desc[i].burst
Priority(i) == proc_desc[i].priority

\* Proc.__eq__ (dataclass equality): all fields equal, remaining included.
ProcEq(i, j) == proc_desc[i] = proc_desc[j] /\ rem[i] = rem[j]

\* list.remove(x): drops the first element equal to x.
RECURSIVE RemoveFirst(_, _)
RemoveFirst(s, x) ==
    IF s = <<>> THEN <<>>
    ELSE IF Head(s) = x \/ ProcEq(Head(s), x) THEN Tail(s)
    ELSE <<Head(s)>> \o RemoveFirst(Tail(s), x)

\* x in list
InList(s, x) == \E k \in 1..Len(s) : s[k] = x \/ ProcEq(s[k], x)

\* The admission loop `for p in remaining[:]: if p.arrival <= time: ...`:
\* the processes it moves (in list order) and the ones it leaves.
ArrivedByStrict(i, t) == Arrival(i) < t
ArrivedByEarly(i, t) == Arrival(i) <= t + 1
ArrivedBy(i, t) == Arrival(i) <= t
Admitted(rm, t) == SelectSeq(rm, LAMBDA i : ArrivedBy(i, t))
NotAdmitted(rm, t) == SelectSeq(rm, LAMBDA i : ~ArrivedBy(i, t))

\* min(remaining, key=lambda x: x.arrival).arrival
NextArrival(rm) == Min({Arrival(rm[k]) : k \in 1..Len(rm)})

IdleLate(s, e) == <<"idle", s, e + 1>>
Idle(s, e) == <<"idle", s, e>>

\* The selection keys of the policies.
ArrivalKey == [i \in 1..N |-> <<Arrival(i)>>]
SjfKeyArrivalFirst == [i \in 1..N |-> <<Arrival(i), Burst(i)>>]
SjfKey == [i \in 1..N |-> <<Burst(i), Arrival(i)>>]
SrtfKey == [i \in 1..N |-> <<rem[i], Arrival(i)>>]
PrioKey == [i \in 1..N |-> <<Priority(i), Arrival(i)>>]
PrioPKey == [i \in 1..N |-> <<Priority(i), Arrival(i), rem[i]>>]

\* -------------------------------------------------------------------- Init
Blank ==
    /\ policy = ""
    /\ rem = <<>>
    /\ remaining = <<>>
    /\ ready = <<>>
    /\ current = 0
    /\ interval_start = None
    /\ time = 0
    /\ rows = <<>>
    /\ avgs = [avg_tat |-> None, avg_wt |-> None, avg_rt |-> None]
    /\ proc_objs = <<>>
    /\ call = 1
    /\ first_gantt = <<>>

\* A POST to /simulate: the form's algorithm and quantum are read (lines
\* 217-219), no line of the process text is parsed yet.
SimulateInit ==
    /\ entry = "simulate"
    /\ pc = "parse"
    /\ algorithm \in Algorithms
    /\ quantum \in (IF algorithm = "rr" THEN Quanta ELSE {DefaultQuantum})
    /\ proc_desc = <<>>
    /\ gantt = <<>>
    /\ Blank

\* compute_metrics_from_gantt called on its own, with a descriptor list and
\* a timeline of the caller's making.
MetricsDescs ==
    { <<>>,
      <<Desc(1, 1, 2, 0)>>,
      <<Desc(1, 0, 1, 0), Desc(2, 1, 2, 1)>> }

MetricsInit ==
    /\ entry = "metrics"
    /\ pc = "build"
    /\ algorithm = "fcfs"
    /\ quantum = DefaultQuantum
    /\ proc_desc \in MetricsDescs
    /\ gantt = <<>>
    /\ Blank

Init == SimulateInit \/ MetricsInit

\* The caller puts one more interval on the timeline: any actor the
\* descriptors name, or idle, over any two ticks.
CallerInterval ==
    /\ pc = "build"
    /\ Len(gantt) < MaxGanttIn
    /\ \E a \in {proc_desc[k].pid : k \in 1..Len(proc_desc)} \cup {"idle"},
          s \in 0..MaxTick, e \in 0..MaxTick :
          gantt' = Append(gantt, <<a, s, e>>)
    /\ UNCHANGED <<call, first_gantt, proc_objs, entry, proc_desc, algorithm, quantum, pc, policy, rem, remaining,
                   ready, current, interval_start, time, rows, avgs>>

\* The caller calls compute_metrics_from_gantt.
CallMetrics ==
    /\ pc = "build"
    /\ pc' = "metrics"
    /\ UNCHANGED <<call, first_gantt, proc_objs, entry, proc_desc, algorithm, quantum, policy, rem, remaining, ready,
                   current, interval_start, time, gantt, rows, avgs>>

\* ------------------------------------------------------------------- parse
\* The descriptors the next line of the text can hold.  The priority column
\* is left out (0) unless a priority policy is asked for; the priority
\* policies, which never select by burst, get bursts up to MaxBurst - 1.
PriorityAsked == algorithm \in {"priority-np", "priority-p"}

Lines(d) ==
    IF Len(d) < MaxProcs
    THEN { Desc(Len(d) + 1, a, b, p) :
             a \in 0..MaxArrival,
             b \in 1..(IF PriorityAsked THEN MaxBurst - 1 ELSE MaxBurst),
             p \in (IF PriorityAsked THEN 0..MaxPrio ELSE {0}) }
    ELSE {}

ScenarioLines(d) ==
    (IF algorithm = "fcfs" THEN ScenarioLine(ScenarioFcfs, d) ELSE {})
    \cup (IF algorithm = "rr" /\ quantum = DefaultQuantum
          THEN ScenarioLine(ScenarioRr, d) ELSE {})
    \cup (IF algorithm = "sjf-p" THEN ScenarioLine(PreemptThenGap, d) ELSE {})
    \cup UNION {ScenarioLine(sc, d) : sc \in IllFormed}

\* One iteration of the parse loop (lines 223-233): a line becomes a descriptor.
ParseLine ==
    /\ pc = "parse"
    /\ entry = "simulate"
    /\ \E d \in Lines(proc_desc) \cup ScenarioLines(proc_desc) :
          proc_desc' = Append(proc_desc, d)
    /\ UNCHANGED <<call, first_gantt, proc_objs, entry, algorithm, quantum, pc, policy, rem, remaining, ready,
                   current, interval_start, time, gantt, rows, avgs>>

\* ---------------------------------------------------------------- dispatch
\* simulate(), lines 239-252: the policy function the algorithm key selects.
PolicyOf(alg) ==
    CASE alg = "fcfs" -> "fcfs"
      [] alg = "sjf-np" -> "sjf_nonpreemptive"
      [] alg = "sjf-p" -> "sjf_preemptive"
      [] alg = "rr" -> "round_robin"
      [] alg = "priority-np" -> "priority_nonpreemptive"
      [] alg = "priority-p" -> "priority_preemptive"
      [] OTHER -> "fcfs"

StartListUnsorted(pol) == [i \in 1..N |-> i]

\* The list the policy starts from: fcfs sorts by arrival, the others copy.
StartList(pol) ==
    IF pol = "fcfs" THEN SortStable([i \in 1..N |-> i], ArrivalKey)
    ELSE [i \in 1..N |-> i]

CopiesNever(pol) == FALSE

\* Whether the policy works on copies of the caller's records: all but fcfs
\* begin with procs = [Proc(p.pid, p.arrival, p.burst, p.priority) for p in
\* procs] (lines 42, 62, 98, 128, 147); fcfs keeps the caller's objects.
Copies(pol) == pol # "fcfs"

\* The caller's records as a write to the policy's records r leaves them.
CallerView(r) == IF Copies(policy) THEN proc_objs ELSE r

\* The prologue of policy pol called on records whose remaining fields are
\* objs: a copy starts with remaining = burst (__post_init__), the clock and
\* the lists are cleared.
Prologue(pol, objs) ==
    /\ policy' = pol
    /\ rem' = IF Copies(pol) THEN [i \in 1..N |-> Burst(i)] ELSE objs
    /\ remaining' = StartList(pol)
    /\ ready' = <<>>
    /\ current' = 0
    /\ interval_start' = None
    /\ time' = 0
    /\ gantt' = <<>>

\* simulate() builds the Proc objects (line 236) and calls the policy the
\* algorithm key selects.
Dispatch ==
    /\ pc = "parse"
    /\ entry = "simulate"
    /\ proc_objs' = [i \in 1..N |-> Burst(i)]
    /\ Prologue(PolicyOf(algorithm), proc_objs')
    /\ pc' = "loop"
    /\ UNCHANGED <<call, first_gantt, entry, proc_desc, algorithm, quantum, rows, avgs>>

\* The policy is called once more on the same list of Proc objects, by a
\* caller that kept the list and the first timeline.
RunAgain ==
    /\ pc = "metrics"
    /\ entry = "simulate"
    /\ call = 1
    /\ N <= MaxRerun
    /\ call' = 2
    /\ first_gantt' = gantt
    /\ Prologue(policy, proc_objs)
    /\ pc' = "loop"
    /\ UNCHANGED <<proc_objs, entry, proc_desc, algorithm, quantum, rows, avgs>>

\* -------------------------------------------------------------------- fcfs
\* One iteration of `for p in procs` (lines 31-38).
FcfsStep ==
    /\ pc = "loop" /\ policy = "fcfs"
    /\ remaining # <<>>
    /\ LET p == Head(remaining)
           g1 == IF time < Arrival(p) THEN Append(gantt, Idle(time, Arrival(p))) ELSE gantt
           start == IF time < Arrival(p) THEN Arrival(p) ELSE time
           end == start + Burst(p)
       IN  /\ gantt' = Append(g1, <<Pid(p), start, end>>)
           /\ time' = end
           /\ remaining' = Tail(remaining)
    /\ UNCHANGED <<call, first_gantt, proc_objs, entry, proc_desc, algorithm, quantum, pc, policy, rem, ready,
                   current, interval_start, rows, avgs>>

\* ------------------------------------------- the non-preemptive policies
\* One iteration of `while remaining or ready` of sjf_nonpreemptive (lines
\* 47-58) and of priority_nonpreemptive (lines 130-143); key is the sort key.
NonPreemptiveStep(key) ==
    /\ remaining # <<>> \/ ready # <<>>
    /\ \E rd \in {ready \o Admitted(remaining, time)},
          rm \in {NotAdmitted(remaining, time)} :
           IF rd = <<>>
           THEN /\ gantt' = Append(gantt, Idle(time, NextArrival(rm)))
                /\ time' = NextArrival(rm)
                /\ ready' = rd
                /\ remaining' = rm
           ELSE \E sorted \in {SortStable(rd, key)} :
                LET p == Head(sorted)
                IN  /\ gantt' = Append(gantt, <<Pid(p), time, time + Burst(p)>>)
                    /\ time' = time + Burst(p)
                    /\ ready' = Tail(sorted)
                    /\ remaining' = rm
    /\ UNCHANGED <<call, first_gantt, proc_objs, entry, proc_desc, algorithm, quantum, pc, policy, rem,
                   current, interval_start, rows, avgs>>

SjfNpStep ==
    /\ pc = "loop" /\ policy = "sjf_nonpreemptive"
    /\ NonPreemptiveStep(SjfKey)

PrioNpStep ==
    /\ pc = "loop" /\ policy = "priority_nonpreemptive"
    /\ NonPreemptiveStep(PrioKey)

\* ----------------------------------------------- the preemptive policies
\* One iteration of `while remaining or ready or current` of sjf_preemptive
\* (lines 69-94) and of priority_preemptive (lines 150-170): one tick, or one
\* idle jump; key is the sort key of the candidates.
PreemptiveStep(key) ==
    /\ remaining # <<>> \/ ready # <<>> \/ current # 0
    /\ \E rd \in {ready \o Admitted(remaining, time)},
          rm \in {NotAdmitted(remaining, time)} :
       LET candidates == rd \o (IF current # 0 THEN <<current>> ELSE <<>>)
       IN  IF candidates = <<>>
           THEN /\ gantt' = Append(gantt, Idle(time, NextArrival(rm)))
                /\ time' = NextArrival(rm)
                /\ ready' = rd
                /\ remaining' = rm
                /\ UNCHANGED <<rem, current, interval_start>>
           ELSE \E chosen \in {Head(SortStable(candidates, key))} :
                \* a run whose current never reaches remaining == 0 does not
                \* end; it is followed for MaxDiverge ticks below 0
                /\ rem[chosen] + MaxDiverge > 0
                /\ LET \* the old interval is closed when the pid changes
                       closes == current # 0 /\ Pid(chosen) # Pid(current)
                       g1 == IF closes
                             THEN Append(gantt, <<Pid(current), Val(interval_start), time>>)
                             ELSE gantt
                       s1 == IF closes THEN None ELSE interval_start
                       rd1 == IF InList(rd, chosen) THEN RemoveFirst(rd, chosen) ELSE rd
                       \* current is overwritten; the process it held is in no list
                       s2 == IF chosen # current THEN Some(time) ELSE s1
                       left == rem[chosen] - 1
                   IN  /\ rem' = [rem EXCEPT ![chosen] = left]
                       /\ time' = time + 1
                       /\ ready' = rd1
                       /\ remaining' = rm
                       /\ IF left = 0
                          THEN /\ gantt' = Append(g1, <<Pid(chosen), Val(s2), time + 1>>)
                               /\ current' = 0
                               /\ interval_start' = None
                          ELSE /\ gantt' = g1
                               /\ current' = chosen
                               /\ interval_start' = s2
    /\ proc_objs' = CallerView(rem')
    /\ UNCHANGED <<call, first_gantt, entry, proc_desc, algorithm, quantum, pc, policy, rows, avgs>>

SjfPStep ==
    /\ pc = "loop" /\ policy = "sjf_preemptive"
    /\ PreemptiveStep(SrtfKey)

PrioPStep ==
    /\ pc = "loop" /\ policy = "priority_preemptive"
    /\ PreemptiveStep(PrioPKey)

\* ------------------------------------------------------------- round robin
SliceWhole(q, r) == r

\* run = min(quantum, p.remaining)
Slice(q, r) == MinOf(q, r)

RequeueAhead(q, p, left) == IF left > 0 THEN <<p>> \o q ELSE q

\* if p.remaining > 0: queue.append(p) (lines 123-124)
Requeue(q, p, left) == IF left > 0 THEN Append(q, p) ELSE q

\* One iteration of `while remaining or queue` of round_robin (lines 103-124).
\* The queue is the variable ready.  A run with quantum <= 0 does not end; it
\* is followed for MaxDiverge intervals.
RrStep ==
    /\ pc = "loop" /\ policy = "round_robin"
    /\ remaining # <<>> \/ ready # <<>>
    /\ quantum >= 1 \/ Len(gantt) < MaxDiverge
    /\ \E q1 \in {ready \o Admitted(remaining, time)},
          rm1 \in {NotAdmitted(remaining, time)} :
           IF q1 = <<>>
           THEN /\ gantt' = Append(gantt, Idle(time, NextArrival(rm1)))
                /\ time' = NextArrival(rm1)
                /\ ready' = q1
                /\ remaining' = rm1
                /\ rem' = rem
           ELSE LET p == Head(q1)
                    run == Slice(quantum, rem[p])
                    end == time + run
                    left == rem[p] - run
                    q2 == Tail(q1) \o Admitted(rm1, end)
                IN  IF rem[p] <= 0
                    THEN /\ ready' = Tail(q1)
                         /\ remaining' = rm1
                         /\ UNCHANGED <<gantt, time, rem>>
                    ELSE /\ gantt' = Append(gantt, <<Pid(p), time, end>>)
                         /\ rem' = [rem EXCEPT ![p] = left]
                         /\ time' = end
                         /\ remaining' = NotAdmitted(rm1, end)
                         /\ ready' = Requeue(q2, p, left)
    /\ proc_objs' = CallerView(rem')
    /\ UNCHANGED <<call, first_gantt, entry, proc_desc, algorithm, quantum, pc, policy,
                   current, interval_start, rows, avgs>>

\* ------------------------------------------------------------------ return
\* The loop condition is false: the policy returns gantt (lines 39, 59, 95,
\* 125, 144, 171) and simulate() goes on to the metrics (line 255).
LoopOver == remaining = <<>> /\ ready = <<>> /\ current = 0

Return ==
    /\ pc = "loop"
    /\ LoopOver
    /\ pc' = "metrics"
    /\ UNCHANGED <<call, first_gantt, proc_objs, entry, proc_desc, algorithm, quantum, policy, rem, remaining, ready,
                   current, interval_start, time, gantt, rows, avgs>>

\* ----------------------------------------------------------------- metrics
\* The keys of the dict `info` (line 178), in insertion order: each pid once,
\* at the place of its first descriptor.
RECURSIVE InfoPids(_)
InfoPids(d) ==
    IF d = <<>> THEN <<>>
    ELSE LET front == InfoPids(SubSeq(d, 1, Len(d) - 1))
             pid == d[Len(d)].pid
         IN  IF pid \in Range(front) THEN front ELSE Append(front, pid)

\* info[pid]: a later descriptor of the same pid overwrites an earlier one.
InfoOf(d, pid) ==
    d[CHOOSE k \in 1..Len(d) :
        d[k].pid = pid /\ \A m \in (k + 1)..Len(d) : d[m].pid # pid]

RECURSIVE ScanGanttLastStart(_, _)
ScanGanttLastStart(g, st) ==
    IF g = <<>> THEN st
    ELSE LET pid == Head(g)[1]
         IN  IF pid = "idle" THEN ScanGanttLastStart(Tail(g), st)
             ELSE ScanGanttLastStart(Tail(g),
                    [starts |-> [st.starts EXCEPT ![pid] = Some(Head(g)[2])],
                     completions |-> [st.completions EXCEPT ![pid] = Some(Head(g)[3])]])

\* The loop over gantt (lines 181-185), from the dicts of line 179-180:
\* st.starts and st.completions after the intervals of g.
RECURSIVE ScanGantt(_, _)
ScanGantt(g, st) ==
    IF g = <<>> THEN st
    ELSE LET pid == Head(g)[1]
             s == Head(g)[2]
             e == Head(g)[3]
         IN  IF pid = "idle" THEN ScanGantt(Tail(g), st)
             ELSE ScanGantt(Tail(g),
                    [starts |-> IF IsNone(st.starts[pid])
                                  THEN [st.starts EXCEPT ![pid] = Some(s)]
                                  ELSE st.starts,
                     completions |-> [st.completions EXCEPT ![pid] = Some(e)]])

\* One metrics row (lines 188-197).
MetricsRow(pid, d, start, completion) ==
    IF IsNone(start) \/ IsNone(completion)
    THEN [pid |-> pid, arrival |-> d.arrival, burst |-> d.burst,
          start |-> None, completion |-> None,
          TAT |-> None, WT |-> None, RT |-> None, priority |-> d.priority]
    ELSE LET tat == Val(completion) - d.arrival
             wt == tat - d.burst
             rt == Val(start) - d.arrival
         IN  [pid |-> pid, arrival |-> d.arrival, burst |-> d.burst,
              start |-> start, completion |-> completion,
              TAT |-> Some(tat), WT |-> Some(wt), RT |-> Some(rt),
              priority |-> d.priority]

MetricsRows(d, g) ==
    LET keys == InfoPids(d)
        blank == [pid \in Range(keys) |-> None]
        st == ScanGantt(g, [starts |-> blank, completions |-> blank])
    IN  [k \in 1..Len(keys) |->
            MetricsRow(keys[k], InfoOf(d, keys[k]), st.starts[keys[k]],
                       st.completions[keys[k]])]

\* sum(...)/len(completed) if completed else None (lines 199-202); the
\* quotient is kept as the pair <<sum, len>>.
AverageUnguarded(vals) == Some(<<SumSeq(vals), Len(vals)>>)

Average(vals) ==
    IF vals # <<>> THEN Some(<<SumSeq(vals), Len(vals)>>) ELSE None

Averages(rs) ==
    LET completed == SelectSeq(rs, LAMBDA r : ~IsNone(r.TAT))
    IN  [avg_tat |-> Average([k \in 1..Len(completed) |-> Val(completed[k].TAT)]),
         avg_wt |-> Average([k \in 1..Len(completed) |-> Val(completed[k].WT)]),
         avg_rt |-> Average([k \in 1..Len(completed) |-> Val(completed[k].RT)])]

\* compute_metrics_from_gantt(proc_desc, gantt) (lines 177-203).
ComputeMetrics ==
    /\ pc = "metrics"
    /\ rows' = MetricsRows(proc_desc, gantt)
    /\ avgs' = Averages(MetricsRows(proc_desc, gantt))
    /\ pc' = "done"
    /\ UNCHANGED <<call, first_gantt, proc_objs, entry, proc_desc, algorithm, quantum, policy, rem, remaining, ready,
                   current, interval_start, time, gantt>>

\* ----------------------------------------------------------- specification
Next ==
    \/ CallerInterval
    \/ CallMetrics
    \/ ParseLine
    \/ Dispatch
    \/ RunAgain
    \/ FcfsStep
    \/ SjfNpStep
    \/ SjfPStep
    \/ RrStep
    \/ PrioNpStep
    \/ PrioPStep
    \/ Return
    \/ ComputeMetrics

Spec == Init /\ [][Next]_vars

\* The interpreter runs the policy's loop on: an iteration that can be taken
\* is taken, and so is the return.
LoopStep ==
    FcfsStep \/ SjfNpStep \/ SjfPStep \/ RrStep \/ PrioNpStep \/ PrioPStep \/ Return

FairSpec == Spec /\ WF_vars(LoopStep)

\* ------------------------------------------------------------------ claims
\* What the claims speak of, read off the input and the timeline alone.
UniquePids(d) == \A i, j \in 1..Len(d) : d[i].pid = d[j].pid => i = j

ValidDescs(d) ==
    /\ UniquePids(d)
    /\ \A i \in 1..Len(d) : d[i].arrival >= 0 /\ d[i].burst > 0

\* A run of simulate() on valid input (round robin: with quantum >= 1).
ValidRun ==
    /\ entry = "simulate"
    /\ ValidDescs(proc_desc)
    /\ algorithm = "rr" => quantum >= 1

\* The policy has returned its timeline.
Returned == entry = "simulate" /\ pc \in {"metrics", "done"}

Preemptive == policy \in {"sjf_preemptive", "priority_preemptive"}

Max(S) == CHOOSE x \in S : \A y \in S : x >= y

IntervalsOf(pid) == {k \in 1..Len(gantt) : gantt[k][1] = pid}
Busy == {k \in 1..Len(gantt) : gantt[k][1] # "idle"}

\* The ticks during which pid occupies the CPU, and how many of them lie before t.
TicksOf(pid) ==
    UNION { gantt[k][2]..(gantt[k][3] - 1) : k \in IntervalsOf(pid) }
ExecutedBefore(pid, t) == Cardinality({u \in TicksOf(pid) : u < t})

\* sum of (end - start) over the intervals of pid
RunLength(pid) ==
    SumSeq([k \in 1..Len(gantt) |->
              IF gantt[k][1] = pid THEN gantt[k][3] - gantt[k][2] ELSE 0])

\* C1: on valid input the timeline of every policy has start < end in every
\* interval, starts at 0, has each interval start where the previous one ends,
\* and ends at the largest completion time.
TimelineContiguous ==
    ValidRun =>
        /\ \A k \in 1..Len(gantt) : gantt[k][2] < gantt[k][3]
        /\ gantt # <<>> => gantt[1][2] = 0
        /\ \A k \in 2..Len(gantt) : gantt[k][2] = gantt[k - 1][3]
        /\ (Returned /\ gantt # <<>>) =>
              /\ Busy # {}
              /\ gantt[Len(gantt)][3] = Max({gantt[k][3] : k \in Busy})

\* C1 witness: a preemptive run that returned a timeline with an idle gap
\* and a process that was cut short.
TimelineContiguousWitness ==
    /\ ValidRun /\ Returned
    /\ policy = "sjf_preemptive"
    /\ \E k \in 1..Len(gantt) : gantt[k][1] = "idle"
    /\ \E i \in 1..N : RunLength(Pid(i)) < Burst(i)

\* C2: when a run on valid input ends, the interval lengths of every process
\* add up to its burst.
BurstFullyServed ==
    (ValidRun /\ Returned) => \A i \in 1..N : RunLength(Pid(i)) = Burst(i)

\* The selection key of process i at tick t, from what it has run before t.
KeyAt(i, t) ==
    LET left == Burst(i) - ExecutedBefore(Pid(i), t)
    IN  IF policy = "sjf_preemptive" THEN <<left, Arrival(i)>>
        ELSE <<Priority(i), Arrival(i), left>>

\* C3: under the preemptive policies, at every tick of a run no process that
\* has arrived and has not had its full burst has a strictly smaller key than
\* the process on the CPU.
RunningHasMinimalKey ==
    (ValidRun /\ Returned /\ Preemptive) =>
        \A i, j \in 1..N : \A t \in TicksOf(Pid(i)) :
            (Arrival(j) <= t /\ ExecutedBefore(Pid(j), t) < Burst(j))
                => ~LexLess(KeyAt(j, t), KeyAt(i, t))

\* Process j has arrived by tick t and has not had its full burst before t.
Unfinished(j, t) == Arrival(j) <= t /\ ExecutedBefore(Pid(j), t) < Burst(j)
LaterArrivals(t) == {Arrival(j) : j \in {m \in 1..N : Arrival(m) > t}}

\* C4: an idle interval starts at t exactly when no arrived process is
\* unfinished and some process arrives after t; it ends at the earliest such
\* arrival, and every tick of the clock lies in an interval of the timeline.
IdleOnlyWhenNothingToRun ==
    ValidRun =>
        /\ \A k \in 1..Len(gantt) :
              LET t == gantt[k][2]
              IN  IF gantt[k][1] = "idle"
                  THEN /\ \A j \in 1..N : ~Unfinished(j, t)
                       /\ LaterArrivals(t) # {}
                       /\ gantt[k][3] = Min(LaterArrivals(t))
                  ELSE \E j \in 1..N : Unfinished(j, t)
        /\ Returned => time = (IF gantt = <<>> THEN 0 ELSE gantt[Len(gantt)][3])

\* C5: round robin with quantum <= 0 on a non-empty list emits no interval.
NonPositiveQuantumRejected ==
    (entry = "simulate" /\ algorithm = "rr" /\ quantum <= 0 /\ proc_desc # <<>>)
        => gantt = <<>>

\* C6: an algorithm key that is none of the six runs no policy and yields no
\* timeline and no metrics.
UnknownAlgorithmRejected ==
    (entry = "simulate" /\ algorithm \notin KnownAlgorithms)
        => gantt = <<>> /\ rows = <<>>

\* A process leaves the run: it is in no list and is not current any more.
InRun(i) == i \in Range(remaining) \/ i \in Range(ready) \/ i = current

\* C7: on valid input the loop of every policy ends, with not-yet-arrived,
\* ready and current all empty, and every iteration admits a process, advances
\* the clock or retires a process.
LoopTerminates ==
    /\ (ValidRun /\ pc = "loop") ~> (pc = "metrics" /\ LoopOver)
    /\ [][(ValidRun /\ pc = "loop" /\ pc' = "loop") =>
            \/ Len(remaining') < Len(remaining)
            \/ time' > time
            \/ \E i \in 1..N : InRun(i) /\ ~InRun(i)']_vars

\* C7 witness: a round robin run, in which a process went back to the queue,
\* has ended.
LoopTerminatesWitness ==
    /\ ValidRun /\ pc = "metrics" /\ LoopOver
    /\ policy = "round_robin"
    /\ \E i \in 1..N : Cardinality(IntervalsOf(Pid(i))) >= 2

\* C8: compute_metrics_from_gantt returns one row per descriptor; start is the
\* start of the pid's first interval, completion the end of its last one,
\* TAT = completion - arrival, WT = TAT - burst, RT = start - arrival; all five
\* are null when the pid has no interval.
MetricsFromTimeline ==
    (pc = "done" /\ UniquePids(proc_desc)) =>
        /\ Len(rows) = Len(proc_desc)
        /\ \A k \in 1..Len(rows) :
              LET d == proc_desc[k]
                  r == rows[k]
                  ks == IntervalsOf(d.pid)
              IN  /\ r.pid = d.pid /\ r.arrival = d.arrival
                  /\ r.burst = d.burst /\ r.priority = d.priority
                  /\ IF ks = {}
                     THEN /\ IsNone(r.start) /\ IsNone(r.completion)
                          /\ IsNone(r.TAT) /\ IsNone(r.WT) /\ IsNone(r.RT)
                     ELSE LET first == gantt[Min(ks)][2]
                              last == gantt[Max(ks)][3]
                          IN  /\ r.start = Some(first)
                              /\ r.completion = Some(last)
                              /\ r.TAT = Some(last - d.arrival)
                              /\ r.WT = Some(last - d.arrival - d.burst)
                              /\ r.RT = Some(first - d.arrival)

\* C8 witness: the helper was given a timeline in which P1 has two intervals,
\* the later one with the smaller ticks, and P2 has none.
MetricsFromTimelineWitness ==
    /\ entry = "metrics" /\ pc = "done"
    /\ Len(proc_desc) = 2
    /\ Cardinality(IntervalsOf("P1")) = 2
    /\ IntervalsOf("P2") = {}
    /\ gantt[1][2] > gantt[2][2] /\ gantt[1][3] > gantt[2][3]

Aggregates == <<avgs.avg_tat, avgs.avg_wt, avgs.avg_rt>>

\* C9: every policy turns an empty list into an empty timeline; the metrics of
\* it have no rows and null aggregates; an aggregate is null exactly when no
\* row has a TAT.
EmptyInputNullAggregates ==
    /\ (entry = "simulate" /\ pc # "parse" /\ proc_desc = <<>>) =>
          /\ gantt = <<>>
          /\ pc = "loop" => LoopOver
    /\ (pc = "done" /\ proc_desc = <<>> /\ gantt = <<>>) =>
          /\ rows = <<>>
          /\ \A a \in 1..3 : IsNone(Aggregates[a])
    /\ pc = "done" =>
          \A a \in 1..3 :
              IsNone(Aggregates[a]) <=> (\A k \in 1..Len(rows) : IsNone(rows[k].TAT))

\* C9 witness: a policy other than fcfs has run on the empty list and the
\* metrics are computed.
EmptyInputWitness ==
    /\ entry = "simulate" /\ pc = "done"
    /\ proc_desc = <<>>
    /\ policy = "sjf_nonpreemptive"

\* fcfs order: i runs before j when it arrives earlier, or at the same tick and
\* stands earlier in the input.
FcfsBefore(i, j) == Arrival(i) < Arrival(j) \/ (Arrival(i) = Arrival(j) /\ i < j)
FcfsNth(k) == CHOOSE i \in 1..N : Cardinality({j \in 1..N : FcfsBefore(j, i)}) = k - 1

\* The k-th busy interval of the timeline (as a position in gantt).
BusyNth(k) == CHOOSE m \in Busy : Cardinality({x \in Busy : x < m}) = k - 1

\* C10: fcfs runs every process once, as one interval of length burst, in
\* arrival order with ties in input order; a process starts at the later of
\* the previous end and its arrival, with an idle interval before it exactly
\* when the previous end is earlier than its arrival; and the documented
\* scenario gives the documented timeline and metrics.
FcfsOrder ==
    /\ (ValidRun /\ Returned /\ policy = "fcfs") =>
          /\ Cardinality(Busy) = N
          /\ \A k \in 1..N :
                LET i == FcfsNth(k)
                    m == BusyNth(k)
                    prevEnd == IF k = 1 THEN 0 ELSE gantt[BusyNth(k - 1)][3]
                    start == IF prevEnd < Arrival(i) THEN Arrival(i) ELSE prevEnd
                IN  /\ gantt[m] = <<Pid(i), start, start + Burst(i)>>
                    /\ IF prevEnd < Arrival(i)
                       THEN m > 1 /\ gantt[m - 1] = <<"idle", prevEnd, Arrival(i)>>
                       ELSE m = 1 \/ gantt[m - 1][1] # "idle"
    /\ (entry = "simulate" /\ pc = "done" /\ policy = "fcfs"
        /\ proc_desc = ScenarioFcfs) =>
          /\ gantt = << <<"P1", 0, 8>>, <<"P2", 8, 12>>, <<"P3", 12, 21>> >>
          /\ [k \in 1..3 |-> rows[k].TAT] = << <<8>>, <<11>>, <<19>> >>
          /\ [k \in 1..3 |-> rows[k].WT] = << <<0>>, <<7>>, <<10>> >>
          /\ [k \in 1..3 |-> rows[k].RT] = << <<0>>, <<7>>, <<10>> >>

\* C10 witness: fcfs has run the documented scenario.
FcfsScenarioWitness ==
    /\ entry = "simulate" /\ pc = "done"
    /\ algorithm = "fcfs"
    /\ proc_desc = ScenarioFcfs

\* A round robin run on valid input (quantum >= 1).
RrValid == ValidRun /\ policy = "round_robin"

\* The process whose pid is on the interval g (pids are unique).
ProcOf(g) == CHOOSE i \in 1..N : Pid(i) = g[1]

\* x stands before y in the list s.
Ahead(s, x, y) ==
    \E k, m \in 1..Len(s) : k < m /\ s[k] = x /\ s[m] = y

\* C11: in round robin with quantum >= 1, when a process ends a slice at t
\* with remaining > 0, every process not yet admitted with arrival <= t is put
\* in the queue ahead of it, and every such process has a turn before the
\* returning process runs again.
ArrivalsAheadOfReturning ==
    /\ [][(RrValid /\ pc = "loop" /\ Len(gantt') = Len(gantt) + 1
            /\ gantt'[Len(gantt')][1] # "idle")
          => LET p == ProcOf(gantt'[Len(gantt')])
             IN  rem'[p] > 0 =>
                    /\ ready'[Len(ready')] = p
                    /\ \A j \in Range(remaining) \ {p} :
                          Arrival(j) <= time' =>
                             /\ j \notin Range(remaining')
                             /\ Ahead(ready', j, p)]_vars
    /\ [](RrValid =>
            \A a, c \in 1..Len(gantt) :
               (a < c /\ gantt[a][1] = gantt[c][1] /\ gantt[a][1] # "idle") =>
                  \A j \in 1..N :
                     (/\ Pid(j) # gantt[a][1]
                      /\ Arrival(j) > gantt[a][2]
                      /\ Arrival(j) <= gantt[a][3]) =>
                         \E b \in (a + 1)..(c - 1) : gantt[b][1] = Pid(j))

\* C11 witness: a process arrived during the slice of another one, had its
\* turn next, and the other one ran again after it.
ArrivalsAheadWitness ==
    /\ RrValid
    /\ \E a, b, c \in 1..Len(gantt) : \E j \in 1..N :
          /\ a < b /\ b < c
          /\ gantt[a][1] = gantt[c][1] /\ gantt[a][1] # "idle"
          /\ gantt[b][1] = Pid(j) /\ Pid(j) # gantt[a][1]
          /\ Arrival(j) > gantt[a][2] /\ Arrival(j) <= gantt[a][3]

\* C12: a batch with an ill-formed descriptor (a duplicate pid, a burst <= 0
\* or an arrival < 0) is rejected before the simulation: it yields no timeline
\* interval and no metrics row.
IllFormedRejected ==
    (entry = "simulate" /\ pc # "parse" /\ ~ValidDescs(proc_desc))
        => gantt = <<>> /\ rows = <<>>

\* The policy has been entered (its private copies exist).
Entered == pc \in {"loop", "metrics", "done"}

\* C13: in every policy's run a process record is out of not-yet-arrived,
\* ready/queue and current exactly when its remaining field is 0.
RetiredExactlyAtZero ==
    (ValidRun /\ Entered) =>
        \A i \in 1..N : ~InRun(i) <=> rem[i] = 0

\* C14: in the preemptive policies, a running process that is displaced by
\* another one while its remaining > 0 is in the ready set at the next
\* decision point.
DisplacedReturnsToReady ==
    [][(ValidRun /\ Preemptive /\ pc = "loop"
         /\ current # 0 /\ current' # current /\ rem'[current] > 0)
       => current \in Range(ready')]_vars

\* C15: in round robin, of two processes admitted at the same admission step
\* the one with the strictly earlier arrival is placed ahead of the other in
\* the queue, whatever the order of the input list.
AdmittedInArrivalOrder ==
    [][(RrValid /\ pc = "loop") =>
          \A j, k \in Range(remaining) :
             (/\ time < Arrival(j) /\ Arrival(j) < Arrival(k)
              /\ Arrival(k) <= time') => Ahead(ready', j, k)]_vars

NonPreemptive == policy \in {"sjf_nonpreemptive", "priority_nonpreemptive"}

\* The selection key of the non-preemptive policies.
NpKeyOf(i) ==
    IF policy = "sjf_nonpreemptive" THEN <<Burst(i), Arrival(i)>>
    ELSE <<Priority(i), Arrival(i)>>

\* Process j has an interval before position k of the timeline.
RanBefore(j, k) == \E m \in 1..(k - 1) : gantt[m][1] = Pid(j)

\* C16: in sjf_nonpreemptive the process started at clock t has the least
\* (burst, arrival) of the processes with arrival <= t that have not run yet,
\* and runs as one interval of length burst; every process has exactly one
\* interval.  priority_nonpreemptive: the same with (priority, arrival).
NonPreemptiveSelection ==
    (ValidRun /\ NonPreemptive /\ Entered) =>
        /\ \A k \in Busy :
              LET i == ProcOf(gantt[k])
                  t == gantt[k][2]
              IN  /\ gantt[k][3] = t + Burst(i)
                  /\ Arrival(i) <= t
                  /\ ~RanBefore(i, k)
                  /\ \A j \in 1..N :
                        (Arrival(j) <= t /\ ~RanBefore(j, k))
                            => ~LexLess(NpKeyOf(j), NpKeyOf(i))
        /\ Returned => \A i \in 1..N : Cardinality(IntervalsOf(Pid(i))) = 1

\* C16 witness: sjf_nonpreemptive has returned a timeline in which a process
\* ran ahead of one that arrived before it.
NonPreemptiveSelectionWitness ==
    /\ ValidRun /\ Returned /\ policy = "sjf_nonpreemptive"
    /\ \E a, b \in Busy :
          /\ a < b
          /\ Arrival(ProcOf(gantt[a])) > Arrival(ProcOf(gantt[b]))
          /\ Burst(ProcOf(gantt[a])) < Burst(ProcOf(gantt[b]))

\* C17: in round robin with quantum >= 1 every turn is one interval of length
\* min(quantum, remaining at the start of the turn) and takes that much off
\* remaining; consecutive turns of one process stay separate intervals; every
\* remaining is 0 after the last interval; and the documented scenario gives
\* the documented timeline.
RoundRobinSlices ==
    /\ [](RrValid /\ Entered =>
            /\ \A k \in Busy :
                  LET i == ProcOf(gantt[k])
                      left == Burst(i) - ExecutedBefore(Pid(i), gantt[k][2])
                  IN  gantt[k][3] - gantt[k][2] = MinOf(quantum, left)
            /\ \A i \in 1..N : rem[i] = Burst(i) - RunLength(Pid(i))
            /\ Returned => \A i \in 1..N : rem[i] = 0)
    /\ [][(RrValid /\ pc = "loop" /\ pc' = "loop") =>
             /\ Len(gantt') = Len(gantt) + 1
             /\ SubSeq(gantt', 1, Len(gantt)) = gantt]_vars
    /\ []((RrValid /\ Returned /\ quantum = 2 /\ proc_desc = ScenarioRr) =>
            gantt = << <<"P1", 0, 2>>, <<"P2", 2, 4>>, <<"P1", 4, 6>>,
                       <<"P2", 6, 7>>, <<"P1", 7, 8>> >>)

\* C17 witness: round robin has returned a timeline in which a process has
\* two turns in a row, the second one shorter than the quantum.
RoundRobinSlicesWitness ==
    /\ RrValid /\ Returned
    /\ \E k \in 1..(Len(gantt) - 1) :
          /\ gantt[k][1] = gantt[k + 1][1] /\ gantt[k][1] # "idle"
          /\ gantt[k][3] - gantt[k][2] = quantum
          /\ gantt[k + 1][3] - gantt[k + 1][2] < quantum

\* C18: a policy leaves the caller's records as they were, remaining == burst
\* included (pid, arrival, burst and priority are never written), and a second
\* run on the same list returns the timeline the first run returned.
InputRecordsUntouched ==
    (entry = "simulate" /\ Entered) =>
        /\ proc_objs = [i \in 1..N |-> Burst(i)]
        /\ (call = 2 /\ Returned) => gantt = first_gantt

\* C18 witness: round robin has run a second time on the records of a first
\* run in which the remaining of its copies went down slice by slice.
InputRecordsWitness ==
    /\ call = 2 /\ Returned
    /\ RrValid
    /\ Len(first_gantt) >= 3

\* C19: on valid input every interval of a process starts at or after its
\* arrival, and every metrics row has RT >= 0.
NoRunBeforeArrival ==
    ValidRun =>
        /\ \A k \in Busy : gantt[k][2] >= Arrival(ProcOf(gantt[k]))
        /\ pc = "done" =>
              \A k \in 1..Len(rows) : ~IsNone(rows[k].RT) /\ Val(rows[k].RT) >= 0

\* C19 witness: the metrics of a run in which the CPU was idle until the
\* first arrival and one process started at its arrival, another one later.
NoRunBeforeArrivalWitness ==
    /\ ValidRun /\ pc = "done"
    /\ gantt # <<>> /\ gantt[1][1] = "idle"
    /\ \E k, m \in 1..Len(rows) : Val(rows[k].RT) = 0 /\ Val(rows[m].RT) > 0

\* C20: on valid input every process has an interval, and every metrics row
\* has a non-null TAT with WT = TAT - burst >= 0 and RT <= WT.
CompletionCoversBurst ==
    (ValidRun /\ pc = "done") =>
        /\ \A i \in 1..N : IntervalsOf(Pid(i)) # {}
        /\ \A k \in 1..Len(rows) :
              /\ ~IsNone(rows[k].TAT)
              /\ Val(rows[k].WT) = Val(rows[k].TAT) - rows[k].burst
              /\ Val(rows[k].WT) >= 0
              /\ Val(rows[k].RT) <= Val(rows[k].WT)

====
